---- MODULE Spec2Model ----
(***************************************************************************)
(* declarative_enum_dispatch: the macro_rules! generator `enum_dispatch!`  *)
(* with its helpers `__munch_methods!` and `__build_method!`               *)
(* (src/src/lib.rs), as a state machine over one macro invocation in one   *)
(* build.                                                                  *)
(*                                                                         *)
(* The state is the invocation's input, the build's feature configuration, *)
(* the macro invocation that is still to be expanded, the items expanded   *)
(* so far and the diagnostics emitted.  One action stands for the          *)
(* expansion of one macro invocation.  Once the expansion is complete, two *)
(* further actions run the generated code: a trait method called on an     *)
(* enum value, and a From conversion.                                      *)
(*                                                                         *)
(* A text that holds backquotes is kept as the sequence of its pieces      *)
(* between the backquotes: "name: " backquote "{}" backquote "" is         *)
(* <<"name: ", "{}", "">>.                                                 *)
(***************************************************************************)
EXTENDS Integers, Sequences, FiniteSets, TLC

VARIABLES input, feature, pc, inv, out, diag, rt

vars == <<input, feature, pc, inv, out, diag, rt>>

(***************************************************************************)
(* Bounds of the model.                                                    *)
(***************************************************************************)
MaxMethods == 2
MaxVariants == 2
MaxArgs == 2

(***************************************************************************)
(* Tokens.  A trait method's parenthesised parameter group is kept as the  *)
(* token list the matcher of __munch_methods sees: identifiers (keywords   *)
(* such as `self` and `mut` included, as for the `ident` fragment),        *)
(* punctuation, and types (one `ty` fragment each).                        *)
(***************************************************************************)
I(s) == [k |-> "ident", s |-> s]
P(s) == [k |-> "punct", s |-> s]
T(s) == [k |-> "ty", s |-> s]

Comma == P(",")
Colon == P(":")
Amp == P("&")

(***************************************************************************)
(* Attributes: the path of the `meta` fragment and its text.               *)
(* `#[cfg(feature = "platform_specific")]` is the one conditional-         *)
(* inclusion attribute of the documented usage; every other attribute      *)
(* (doc comments, allow, derive) is always active.                         *)
(***************************************************************************)
Meta(path, text) == [path |-> path, text |-> text]

CfgAttr == Meta("cfg", <<"feature = \"platform_specific\"">>)
AllowAttr == Meta("allow", <<"async_fn_in_trait">>)
DeriveAttr == Meta("derive", <<"Debug, Clone">>)
DocDefault == Meta("doc", <<" No return + default implementation">>)
DocBasic == Meta("doc", <<" Basic call without arguments">>)
DocMut == Meta("doc", <<" Mutable self + arguments">>)
DocGeneric == Meta("doc", <<" Kinda supports generics :) Bot not generic parameters, only ",
                            "impl Trait", "">>)
DocAsync == Meta("doc", <<" Supports async methods">>)
DocAttrs == Meta("doc", <<" Works with attributes">>)

\* the items carrying attrs are part of the build with configuration cfg
\* (cfg: the feature platform_specific is on)
Active(attrs, cfg) == \A i \in 1..Len(attrs) : attrs[i] = CfgAttr => cfg

(***************************************************************************)
(* The input of one invocation: method declarations of the trait body and  *)
(* variants of the enum body.                                              *)
(***************************************************************************)
Arg(n, ty) == <<I(n), Colon, T(ty)>>

ArgPool == <<Arg("numerator", "i32"), Arg("denominator", "i32"), Arg("other", "&impl ShapeTrait")>>

\* the tokens of a parameter group: receiver tokens, then the further
\* parameters, comma separated, then an optional trailing comma
RECURSIVE Params(_, _, _)
Params(recv, args, trailing) ==
    IF args = <<>>
    THEN recv \o (IF trailing THEN <<Comma>> ELSE <<>>)
    ELSE IF recv = <<>>
         THEN Params(Head(args), Tail(args), trailing)
         ELSE Params(recv \o <<Comma>> \o Head(args), Tail(args), trailing)

RecvSelf == <<I("self")>>
RecvRef == <<Amp, I("self")>>
RecvMut == <<Amp, I("mut"), I("self")>>
\* receiver positions none of the six shapes of __munch_methods accepts
RecvNone == <<>>
RecvMutSelf == <<I("mut"), I("self")>>
RecvTyped == <<I("self"), Colon, T("Box<Self>")>>
RecvLifetime == <<Amp, P("'a"), I("self")>>

RecvForms == {RecvSelf, RecvRef, RecvMut, RecvNone, RecvMutSelf, RecvTyped, RecvLifetime}

Method(attrs, def, params, ret, body) ==
    [attrs |-> attrs, method_def |-> def, params |-> params, return_type |-> ret, body |-> body]

\* the block { println!("name: `{}`", self.name()); }
DefaultBody == [macro |-> "println", format |-> <<"name: ", "{}", "">>, args |-> <<"self.name()">>]

\* the trait body of the documented usage (lib.rs 17-39, examples/example.rs 4-25)
M_print_name == Method(<<DocDefault>>, <<"fn", "print_name">>, RecvRef, <<>>, <<DefaultBody>>)
M_name == Method(<<DocBasic>>, <<"fn", "name">>, RecvRef, <<"String">>, <<>>)
M_area == Method(<<>>, <<"fn", "area">>, RecvRef, <<"i32">>, <<>>)
M_grow == Method(<<DocMut>>, <<"fn", "grow">>,
                 Params(RecvMut, <<ArgPool[1], ArgPool[2]>>, TRUE), <<>>, <<>>)
M_greater == Method(<<DocGeneric>>, <<"fn", "greater">>,
                    Params(RecvRef, <<ArgPool[3]>>, FALSE), <<"bool">>, <<>>)
M_send == Method(<<DocAsync, AllowAttr>>, <<"async", "fn", "send">>, RecvRef, <<>>, <<>>)
M_platform_specific ==
    Method(<<DocAttrs, CfgAttr>>, <<"fn", "platform_specific">>, RecvSelf, <<>>, <<>>)

UsageMethods == <<M_print_name, M_name, M_area, M_grow, M_greater, M_send, M_platform_specific>>

\* a declaration without a receiver, which the usage does not have
M_sides == Method(<<>>, <<"fn", "sides">>, RecvNone, <<"i32">>, <<>>)

\* the declarations of the usage, and the one without a receiver
SampleMethods == {UsageMethods[i] : i \in 1..Len(UsageMethods)} \cup {M_sides}

\* every declaration shape: attributes, the idents before the parameter
\* group, each receiver position, 0..MaxArgs further parameters, trailing
\* comma, return type, body
ArgPrefixes == {SubSeq(ArgPool, 1, n) : n \in 0..(IF MaxArgs < Len(ArgPool) THEN MaxArgs ELSE Len(ArgPool))}

ShapeMethods ==
    { Method(a, d, Params(r, as, t), ret, b) :
        a \in {<<>>, <<DocAttrs, CfgAttr>>},
        d \in {<<"fn", "area">>, <<"async", "fn", "send">>, <<"unsafe", "fn", "area">>},
        r \in RecvForms,
        as \in ArgPrefixes,
        t \in BOOLEAN,
        ret \in {<<>>, <<"i32">>},
        b \in {<<>>, <<DefaultBody>>} }

Variant(attrs, name, ty) == [attrs |-> attrs, variant |-> name, variant_type |-> ty]

\* the enum body of the documented usage (lib.rs 42-47)
UsageVariants == <<Variant(<<>>, "Rect", "Rect"), Variant(<<>>, "Circle", "Circle"),
                   Variant(<<CfgAttr>>, "Cube", "Cube")>>

SampleVariants == {UsageVariants[i] : i \in 1..Len(UsageVariants)}

SeqsUpTo(S, n) == UNION {[1..k -> S] : k \in 0..n}

\* the declarations around the bodies: the documented usage; a bare one with
\* a lifetime bound; and two that the entry pattern takes although what it
\* re-emits is no trait header of Rust: a lifetime bound before the
\* supertraits (`: 'static : Clone + ...`), and `+ 'static` without a colon
Frames ==
    { [trait_attr |-> <<>>, trait_vis |-> "pub", train_name |-> "ShapeTrait", lf |-> <<>>,
       super_trait |-> <<<<"Clone">>, <<"std", "fmt", "Debug">>>>, lf2 |-> <<"'static">>,
       enum_attr |-> <<DeriveAttr>>, enum_vis |-> "pub", enum_name |-> "Shape", comma |-> TRUE],
      [trait_attr |-> <<AllowAttr>>, trait_vis |-> "", train_name |-> "Contract", lf |-> <<"'static">>,
       super_trait |-> <<>>, lf2 |-> <<>>,
       enum_attr |-> <<>>, enum_vis |-> "pub(crate)", enum_name |-> "Union", comma |-> FALSE],
      [trait_attr |-> <<>>, trait_vis |-> "pub", train_name |-> "ShapeTrait", lf |-> <<"'static">>,
       super_trait |-> <<<<"Clone">>, <<"std", "fmt", "Debug">>>>, lf2 |-> <<>>,
       enum_attr |-> <<DeriveAttr>>, enum_vis |-> "pub", enum_name |-> "Shape", comma |-> TRUE],
      [trait_attr |-> <<>>, trait_vis |-> "", train_name |-> "Contract", lf |-> <<>>,
       super_trait |-> <<>>, lf2 |-> <<"'static">>,
       enum_attr |-> <<>>, enum_vis |-> "", enum_name |-> "Union", comma |-> FALSE] }

Invocation(f, methods, variants) ==
    [trait |-> [attr |-> f.trait_attr, vis |-> f.trait_vis, name |-> f.train_name, lf |-> f.lf,
                super_trait |-> f.super_trait, lf2 |-> f.lf2, any |-> methods],
     enum |-> [attr |-> f.enum_attr, vis |-> f.enum_vis, name |-> f.enum_name,
               variants |-> variants, comma |-> f.comma]]

NoOutput == [trait |-> <<>>, enum |-> <<>>, impl |-> <<>>, methods |-> <<>>, from |-> <<>>]
NoInv == [macro |-> "none"]
NoRt == [op |-> "none"]

\* the trait body of the usage up to each of its declarations
UsagePrefixes == {SubSeq(UsageMethods, 1, n) : n \in 0..Len(UsageMethods)}

\* lists of sample declarations over the documented enum; every declaration
\* shape, alone and with a declaration after it, over the documented enum;
\* the trait body of the usage over lists of sample variants
Inputs ==
    { Invocation(f, ms, UsageVariants) : f \in Frames, ms \in SeqsUpTo(SampleMethods, MaxMethods) }
    \cup
    { Invocation(f, <<m>> \o rest, UsageVariants) :
        f \in Frames, m \in ShapeMethods, rest \in {<<>>, <<M_name>>} }
    \cup
    { Invocation(f, ms, vs) :
        f \in Frames, ms \in UsagePrefixes,
        vs \in SeqsUpTo(SampleVariants, MaxVariants) \cup {UsageVariants} }

Init ==
    /\ input \in Inputs
    /\ feature \in BOOLEAN
    /\ pc = "invoke"
    /\ inv = NoInv
    /\ out = NoOutput
    /\ diag = <<>>
    /\ rt = NoRt

(***************************************************************************)
(* __munch_methods: the matcher of one method declaration.                 *)
(*                                                                         *)
(* After the receiver every shape continues                                *)
(* with an optional group `, arg: ty, arg: ty ...` (its list of parameters *)
(* may be empty), an optional comma, and the closing parenthesis.          *)
(* macro_rules matches a pattern as a set of matcher positions advanced    *)
(* token by token; TailParses is the set of positions that reach the       *)
(* closing parenthesis, each with the parameters it bound.                 *)
(***************************************************************************)
IsArgSeq(s) ==
    \/ s = <<>>
    \/ /\ Len(s) % 4 = 3
       /\ \A i \in 1..Len(s) :
            /\ (i % 4 = 1 => s[i].k = "ident")
            /\ (i % 4 = 2 => s[i] = Colon)
            /\ (i % 4 = 3 => s[i].k = "ty")
            /\ (i % 4 = 0 => s[i] = Comma)

ArgsOf(s) == [i \in 1..((Len(s) + 1) \div 4) |-> [arg |-> s[4 * i - 3].s, arg_ty |-> s[4 * i - 1].s]]

TailParses(t) ==
    \* neither optional group taken
    (IF t = <<>> THEN {[group |-> FALSE, args |-> <<>>, comma |-> FALSE]} ELSE {})
    \cup
    \* only the optional trailing comma
    (IF t = <<Comma>> THEN {[group |-> FALSE, args |-> <<>>, comma |-> TRUE]} ELSE {})
    \cup
    \* only the group: a comma, then zero or more `arg: ty`, comma separated
    (IF Len(t) >= 1 /\ t[1] = Comma /\ IsArgSeq(Tail(t))
     THEN {[group |-> TRUE, args |-> ArgsOf(Tail(t)), comma |-> FALSE]} ELSE {})
    \cup
    \* both
    (IF Len(t) >= 2 /\ t[1] = Comma /\ t[Len(t)] = Comma /\ IsArgSeq(SubSeq(t, 2, Len(t) - 1))
     THEN {[group |-> TRUE, args |-> ArgsOf(SubSeq(t, 2, Len(t) - 1)), comma |-> TRUE]} ELSE {})

\* the six shapes, in the order of the macro's rules (lib.rs 301-326):
\* the receiver tokens before the `ident` that binds self, and whether the
\* declaration ends in a block
Shapes == << [recv |-> <<>>, block |-> FALSE],
             [recv |-> <<Amp>>, block |-> FALSE],
             [recv |-> <<Amp, I("mut")>>, block |-> FALSE],
             [recv |-> <<>>, block |-> TRUE],
             [recv |-> <<Amp>>, block |-> TRUE],
             [recv |-> <<Amp, I("mut")>>, block |-> TRUE] >>

ReceiverMatches(shape, params) ==
    LET n == Len(shape.recv) IN
    /\ Len(params) >= n + 1
    /\ \A i \in 1..n : params[i] = shape.recv[i]
    /\ params[n + 1].k = "ident"

ShapeParses(shape, m) ==
    IF ReceiverMatches(shape, m.params)
    THEN TailParses(SubSeq(m.params, Len(shape.recv) + 2, Len(m.params)))
    ELSE {}

\* "Failure": the rule does not match and the next rule is tried;
\* "Error": two matcher positions reach a fragment ($return_type:ty,
\* $body:block, $rest:tt or $variants:tt) together, which macro_rules
\* reports as a local ambiguity without trying any further rule.
TryShape(shape, m) ==
    LET ps == ShapeParses(shape, m) IN
    IF ps = {} THEN "Failure"
    ELSE IF m.return_type # <<>> /\ Cardinality(ps) > 1 THEN "Error"
    ELSE IF shape.block # (m.body # <<>>) THEN "Failure"
    ELSE IF Cardinality(ps) > 1 THEN "Error"
    ELSE "Success"

\* first rule that does not fail; 7 is the fallback rule (lib.rs 328)
FirstShape(m) ==
    IF \E i \in 1..6 : TryShape(Shapes[i], m) # "Failure"
    THEN CHOOSE i \in 1..6 : /\ TryShape(Shapes[i], m) # "Failure"
                             /\ \A j \in 1..(i - 1) : TryShape(Shapes[j], m) = "Failure"
    ELSE 7

RECURSIVE Stringify(_)
Stringify(idents) ==
    IF Len(idents) = 0 THEN ""
    ELSE IF Len(idents) = 1 THEN idents[1]
    ELSE idents[1] \o " " \o Stringify(Tail(idents))

\* compile_error! of the fallback rule: "method `", the stringified
\* method_def idents, "` should receive self" (lib.rs 329);
\* `quoted` is the text between the two backquotes
MissingReceiver(method_def) ==
    [kind |-> "compile_error", before |-> "method", quoted |-> Stringify(method_def),
     after |-> "should receive self"]

LocalAmbiguity == [kind |-> "local ambiguity", macro |-> "__munch_methods"]
NoRulesExpected(macro) == [kind |-> "no rules expected the token", macro |-> macro]
\* the parser's error on the items a macro transcribed
HeaderParseError == [kind |-> "expected one of", macro |-> "enum_dispatch"]

\* SelfRef whose by-reference rule with a block hands over { } for { & }
SelfRefBlockSlip(i) ==
    IF i = 1 THEN <<>>
    ELSE IF i = 2 THEN <<"&">>
    ELSE IF i = 3 THEN <<"&", "mut">>
    ELSE IF i = 4 THEN <<>>
    ELSE IF i = 5 THEN <<>>
    ELSE <<"&", "mut">>

\* the receiver form rule i hands to __build_method!: { }, { & } or { &mut }
\* (lib.rs 302, 306, 310, 316, 320, 324)
SelfRef(i) ==
    IF i = 1 THEN <<>>
    ELSE IF i = 2 THEN <<"&">>
    ELSE IF i = 3 THEN <<"&", "mut">>
    ELSE IF i = 4 THEN <<>>
    ELSE IF i = 5 THEN <<"&">>
    ELSE <<"&", "mut">>

\* the invocation of __build_method! that rule i transcribes
BuildInvocation(i, m, variants, enum_name) ==
    LET shape == Shapes[i]
        parse == CHOOSE p \in ShapeParses(shape, m) : TRUE
    IN [macro |-> "__build_method",
        attr |-> m.attrs,
        method_def |-> m.method_def,
        self_ref |-> SelfRef(i),
        self_ |-> m.params[Len(shape.recv) + 1].s,
        args |-> parse.args,
        return_type |-> m.return_type,
        variants |-> variants,
        enum_name |-> enum_name]

\* the signature transcribed by __build_method's first rule (lib.rs 270)
BuiltSignature(b) ==
    [attr |-> b.attr, method_def |-> b.method_def, self_ref |-> b.self_ref, self_ |-> b.self_,
     args |-> b.args, return_type |-> b.return_type]

\* the nested invocation the first rule puts in the method's body (lib.rs 271)
MakeMatchInvocation(b) ==
    [macro |-> "__build_method@make_match",
     self_ |-> b.self_,
     method_def |-> b.method_def,
     enum_name |-> b.enum_name,
     variants |-> b.variants,
     args |-> [i \in 1..Len(b.args) |-> b.args[i].arg]]

\* the method as the first rule transcribes it, its body not yet expanded
BuiltMethod(b) ==
    [attr |-> b.attr, method_def |-> b.method_def, self_ref |-> b.self_ref, self_ |-> b.self_,
     args |-> b.args, return_type |-> b.return_type, body |-> MakeMatchInvocation(b)]

\* Arm with the forwarded arguments in reverse order
RECURSIVE Reverse(_)
Reverse(q) == IF q = <<>> THEN <<>> ELSE Append(Reverse(Tail(q)), Head(q))

ArmArgumentsReversed(var, enum_name, method, args, await) ==
    [var_attr |-> var.var_attr, enum_name |-> enum_name, variant |-> var.variant, bind |-> "v",
     recv |-> "v", method |-> method, args |-> Reverse(args), await |-> await]

\* Arm without the variant's attributes
ArmWithoutAttributes(var, enum_name, method, args, await) ==
    [var_attr |-> <<>>, enum_name |-> enum_name, variant |-> var.variant, bind |-> "v",
     recv |-> "v", method |-> method, args |-> args, await |-> await]

\* one arm of the generated match (lib.rs 278-279, 286-287)
Arm(var, enum_name, method, args, await) ==
    [var_attr |-> var.var_attr, enum_name |-> enum_name, variant |-> var.variant, bind |-> "v",
     recv |-> "v", method |-> method, args |-> args, await |-> await]

MatchArms(mm, method, await) ==
    [i \in 1..Len(mm.variants) |-> Arm(mm.variants[i], mm.enum_name, method, mm.args, await)]

\* which @make_match rule takes the method: `fn $method` or `async fn $method`
MakeMatchRule(method_def) ==
    IF Len(method_def) = 2 /\ method_def[1] = "fn" THEN "fn"
    ELSE IF Len(method_def) = 3 /\ method_def[1] = "async" /\ method_def[2] = "fn" THEN "async fn"
    ELSE "none"

\* MatchBody whose async rule leaves out `.await`
MatchBodyNeverAwaits(mm) ==
    [match_on |-> mm.self_,
     arms |-> MatchArms(mm, mm.method_def[Len(mm.method_def)], FALSE)]

\* the match a @make_match rule transcribes (lib.rs 276-281, 284-289)
MatchBody(mm) ==
    LET rule == MakeMatchRule(mm.method_def) IN
    [match_on |-> mm.self_,
     arms |-> MatchArms(mm, mm.method_def[Len(mm.method_def)], rule = "async fn")]

\* the body of a method is a match: its nested invocation was expanded
IsMatch(body) == "arms" \in DOMAIN body

\* what the build with configuration cfg holds for one declaration that a
\* shape takes: the method of __build_method's first rule; its body is the
\* expanded match unless the method's attributes take it out of the build
\* before the nested invocation is expanded, or no @make_match rule matches
Forward(m, variants, enum_name, cfg) ==
    LET b == BuildInvocation(FirstShape(m), m, variants, enum_name) IN
    IF Active(b.attr, cfg) /\ MakeMatchRule(b.method_def) # "none"
    THEN [BuiltMethod(b) EXCEPT !.body = MatchBody(MakeMatchInvocation(b))]
    ELSE BuiltMethod(b)

(***************************************************************************)
(* enum_dispatch: the transcriber of the entry macro (lib.rs 346-367).     *)
(***************************************************************************)
EmittedTrait(t) ==
    [attr |-> t.attr, vis |-> t.vis, name |-> t.name, lf |-> t.lf, super_trait |-> t.super_trait,
     lf2 |-> t.lf2, any |-> t.any]

\* EmittedEnum that leaves the variants' attributes out
EmittedEnumWithoutVariantAttributes(e) ==
    [attr |-> e.attr, vis |-> e.vis, name |-> e.name,
     variants |-> [i \in 1..Len(e.variants) |->
                     [attrs |-> <<>>, variant |-> e.variants[i].variant,
                      variant_type |-> e.variants[i].variant_type]],
     comma |-> FALSE]

\* the enum as transcribed (lib.rs 351-354): the variants are separated by
\* commas, and a comma after the last variant is not transcribed
EmittedEnum(e) ==
    [attr |-> e.attr, vis |-> e.vis, name |-> e.name,
     variants |-> [i \in 1..Len(e.variants) |->
                     [attrs |-> e.variants[i].attrs, variant |-> e.variants[i].variant,
                      variant_type |-> e.variants[i].variant_type]],
     comma |-> FALSE]

EmittedImpl(t, e) == [trait |-> t.name, for |-> e.name]

\* EmittedFrom whose every impl wraps the payload in the first variant
EmittedFromFirstVariant(e) ==
    [i \in 1..Len(e.variants) |->
        [var_attr |-> e.variants[i].attrs, from |-> e.variants[i].variant_type, for |-> e.name,
         param |-> "value", returns |-> e.name,
         constructs |-> [enum_name |-> e.name, variant |-> e.variants[1].variant, payload |-> "value"]]]

EmittedFrom(e) ==
    [i \in 1..Len(e.variants) |->
        [var_attr |-> e.variants[i].attrs, from |-> e.variants[i].variant_type, for |-> e.name,
         param |-> "value", returns |-> e.name,
         constructs |-> [enum_name |-> e.name, variant |-> e.variants[i].variant, payload |-> "value"]]]

\* the variant list handed down, attributes and names (lib.rs 357)
VariantList(e) ==
    [i \in 1..Len(e.variants) |-> [var_attr |-> e.variants[i].attrs, variant |-> e.variants[i].variant]]

MunchInvocation(methods, variants, enum_name) ==
    [macro |-> "__munch_methods", methods |-> methods, variants |-> variants, enum_name |-> enum_name]

\* the entry pattern needs at least one variant (lib.rs 343)
EntryMatches(i) == Len(i.enum.variants) >= 1

\* the trait header as transcribed (lib.rs 347) is one the parser takes: the
\* bounds follow one colon.  The pattern (lib.rs 337) also takes a lifetime
\* bound and supertraits each behind a colon of its own, and `+ 'lf` behind
\* no colon at all; transcribed, neither is a trait header.
HeaderParses(t) ==
    IF t.lf # <<>> THEN t.super_trait = <<>>
    ELSE t.super_trait # <<>> \/ t.lf2 = <<>>

\* the parser's error on a parameter group that opens with a comma
ExpectedParameterName ==
    [kind |-> "expected parameter name", found |-> ",", macro |-> "enum_dispatch"]

\* the errors of the parse of the transcribed trait body (lib.rs 348): the
\* declarations are re-emitted as given, and the parser reports each
\* parameter group that opens with a comma, recovers and goes on; the
\* items are kept.  Parsing comes before the build's attributes are applied.
TraitBodyParseErrors(any) ==
    LET bad == SelectSeq(any, LAMBDA m : m.params # <<>> /\ Head(m.params) = Comma)
    IN [i \in 1..Len(bad) |-> ExpectedParameterName]

\* one invocation of enum_dispatch!: without a variant no rule matches; a
\* transcription whose trait header does not parse is discarded whole,
\* nothing of it is part of the output and the __munch_methods! invocation
\* in it is never expanded; otherwise the items are kept, with the errors
\* of the parse of the trait body, and the method list is expanded
enum_dispatch ==
    /\ pc = "invoke"
    /\ IF ~EntryMatches(input)
       THEN /\ diag' = Append(diag, NoRulesExpected("enum_dispatch"))
            /\ pc' = "error"
            /\ UNCHANGED <<out, inv>>
       ELSE IF ~HeaderParses(input.trait)
       THEN /\ diag' = Append(diag, HeaderParseError)
            /\ pc' = "error"
            /\ UNCHANGED <<out, inv>>
       ELSE /\ out' = [trait |-> <<EmittedTrait(input.trait)>>,
                       enum |-> <<EmittedEnum(input.enum)>>,
                       impl |-> <<EmittedImpl(input.trait, input.enum)>>,
                       methods |-> <<>>,
                       from |-> EmittedFrom(input.enum)]
            /\ inv' = MunchInvocation(input.trait.any, VariantList(input.enum), input.enum.name)
            /\ pc' = "munch"
            /\ diag' = diag \o TraitBodyParseErrors(input.trait.any)
    /\ UNCHANGED <<input, feature, rt>>

\* one invocation of __munch_methods!: the empty list ends the expansion;
\* otherwise the first rule that does not fail takes the head declaration
\* and transcribes __build_method! for it and __munch_methods! for the rest
__munch_methods ==
    /\ pc = "munch"
    /\ IF inv.methods = <<>>
       THEN /\ pc' = (IF diag = <<>> THEN "done" ELSE "error")
            /\ inv' = NoInv
            /\ diag' = diag
       ELSE LET m == Head(inv.methods)
                i == FirstShape(m)
            IN IF i = 7
               THEN /\ diag' = Append(diag, MissingReceiver(m.method_def))
                    /\ pc' = "error"
                    /\ inv' = NoInv
               ELSE IF TryShape(Shapes[i], m) = "Error"
               THEN /\ diag' = Append(diag, LocalAmbiguity)
                    /\ pc' = "error"
                    /\ inv' = NoInv
               ELSE /\ inv' = BuildInvocation(i, m, inv.variants, inv.enum_name) @@
                              [rest |-> Tail(inv.methods)]
                    /\ pc' = "build"
                    /\ diag' = diag
    /\ UNCHANGED <<input, feature, out, rt>>

\* __build_method!'s first rule: the method with the nested @make_match
\* invocation as its body.  A method whose attributes are not active in
\* the build is removed with its body unexpanded, and the expansion goes
\* on with the rest of the declarations.
__build_method ==
    /\ pc = "build"
    /\ out' = [out EXCEPT !.methods = Append(@, BuiltMethod(inv))]
    /\ IF Active(inv.attr, feature)
       THEN /\ inv' = MakeMatchInvocation(inv) @@ [rest |-> inv.rest]
            /\ pc' = "match"
       ELSE /\ inv' = MunchInvocation(inv.rest, inv.variants, inv.enum_name)
            /\ pc' = "munch"
    /\ UNCHANGED <<input, feature, diag, rt>>

\* the nested @make_match invocation: the match becomes the body of the
\* method built last.  When neither rule matches, this invocation alone
\* fails; the rest of the declarations is still expanded.
make_match ==
    /\ pc = "match"
    /\ IF MakeMatchRule(inv.method_def) = "none"
       THEN /\ diag' = Append(diag, NoRulesExpected("__build_method"))
            /\ out' = out
       ELSE /\ out' = [out EXCEPT !.methods[Len(out.methods)].body = MatchBody(inv)]
            /\ diag' = diag
    /\ inv' = MunchInvocation(inv.rest, inv.variants, inv.enum_name)
    /\ pc' = "munch"
    /\ UNCHANGED <<input, feature, rt>>

(***************************************************************************)
(* The generated code at run time.  The payload types are the two of the   *)
(* example, Rect and Circle, with their implementations of the trait       *)
(* (examples/example.rs 36-90).  A result carries the type and the value   *)
(* returned (n a number, s a text: the String returned, or the line        *)
(* printed by a method that returns nothing), the number of futures it is  *)
(* wrapped in, and the payload as the call leaves it.                      *)
(***************************************************************************)
Rect(w, h) == [ty |-> "Rect", w |-> w, h |-> h, r |-> 0]
Circle(r) == [ty |-> "Circle", w |-> 0, h |-> 0, r |-> r]

PayloadValues(ty) ==
    IF ty = "Rect" THEN {Rect(2, 3), Rect(1, 1), Rect(65536, 65536)}
    ELSE IF ty = "Circle" THEN {Circle(2)}
    ELSE {}

Result(tag, n, s, self) == [tag |-> tag, n |-> n, s |-> s, fut |-> 0, self |-> self]

\* i32 arithmetic.  A value is [panic, v]: the operation panicked, or gave v.
\* oc: the build has overflow checks (on in a debug build, off in a
\* release build, where an overflowing product wraps).  Every value and every
\* intermediate result stays within 32 bits: products are computed byte by
\* byte, and an overflow is recognised by dividing the wrapped product.
I32Min == -2147483647 - 1

Val(x) == [panic |-> FALSE, v |-> x]
Panic == [panic |-> TRUE, v |-> 0]

\* byte i of the two's complement representation of v
Limb(v, i) == (v \div 256^i) % 256

\* the low 32 bits of a * b, read as an i32
wrapping_mul(a, b) ==
    LET c0 == Limb(a, 0) * Limb(b, 0)
        c1 == Limb(a, 0) * Limb(b, 1) + Limb(a, 1) * Limb(b, 0) + (c0 \div 256)
        c2 == Limb(a, 0) * Limb(b, 2) + Limb(a, 1) * Limb(b, 1) + Limb(a, 2) * Limb(b, 0)
              + (c1 \div 256)
        c3 == Limb(a, 0) * Limb(b, 3) + Limb(a, 1) * Limb(b, 2) + Limb(a, 2) * Limb(b, 1)
              + Limb(a, 3) * Limb(b, 0) + (c2 \div 256)
        r3 == c3 % 256
    IN (IF r3 >= 128 THEN r3 - 256 ELSE r3) * 16777216
       + (c2 % 256) * 65536 + (c1 % 256) * 256 + (c0 % 256)

QuotPos(a, b) == IF a < 0 /\ a % b # 0 THEN (a \div b) + 1 ELSE a \div b

\* a / b truncated toward zero, for b # 0 and (a, b) # (i32::MIN, -1)
Quot(a, b) ==
    IF b > 0 THEN QuotPos(a, b)
    ELSE IF b = I32Min THEN (IF a = I32Min THEN 1 ELSE 0)
    ELSE -QuotPos(a, -b)

\* a * b is not an i32
Overflows(a, b) ==
    IF a = 0 \/ b = 0 THEN FALSE
    ELSE IF a = -1 THEN b = I32Min
    ELSE IF b = -1 THEN a = I32Min
    ELSE Quot(wrapping_mul(a, b), b) # a

Mul(a, b, oc) ==
    IF a.panic \/ b.panic THEN Panic
    ELSE IF Overflows(a.v, b.v) /\ oc THEN Panic
    ELSE Val(wrapping_mul(a.v, b.v))

\* the quotient is truncated toward zero; division by zero panics, and
\* so does i32::MIN / -1, in every build
Div(a, b) ==
    IF a.panic \/ b.panic THEN Panic
    ELSE IF b.v = 0 THEN Panic
    ELSE IF a.v = I32Min /\ b.v = -1 THEN Panic
    ELSE Val(Quot(a.v, b.v))

area(p, oc) ==
    IF p.ty = "Rect" THEN Mul(Val(p.w), Val(p.h), oc)
    ELSE Mul(Mul(Val(3), Val(p.r), oc), Val(p.r), oc)

name(p) == p.ty

\* [panic, self]: the payload as the call leaves it; Rect assigns w, then h
grow(p, numerator, denominator, oc) ==
    IF p.ty = "Rect"
    THEN LET w == Div(Mul(Val(p.w), Val(numerator), oc), Val(denominator))
             h == Div(Mul(Val(p.h), Val(numerator), oc), Val(denominator))
         IN IF w.panic THEN [panic |-> TRUE, self |-> p]
            ELSE IF h.panic THEN [panic |-> TRUE, self |-> [p EXCEPT !.w = w.v]]
            ELSE [panic |-> FALSE, self |-> [p EXCEPT !.w = w.v, !.h = h.v]]
    ELSE LET r == Div(Mul(Val(p.r), Val(numerator), oc), Val(denominator))
         IN IF r.panic THEN [panic |-> TRUE, self |-> p]
            ELSE [panic |-> FALSE, self |-> [p EXCEPT !.r = r.v]]

\* println!(format, arg): the placeholder {} gives way to the argument
Println(format, arg) == [i \in 1..Len(format) |-> IF format[i] = "{}" THEN arg ELSE format[i]]

\* Rect overrides print_name (example.rs 48-50); Circle keeps the trait's
\* default body (example.rs 6-8)
print_name(p) ==
    IF p.ty = "Rect" THEN Println(<<"rect name: ", "{}", "">>, name(p))
    ELSE Println(DefaultBody.format, name(p))

\* <payload type as ShapeTrait>::method(p, argv...)
TypeImpl(p, method, argv, oc) ==
    IF method = "print_name" /\ Len(argv) = 0 THEN Result("unit", 0, print_name(p), p)
    ELSE IF method = "name" /\ Len(argv) = 0 THEN Result("String", 0, <<name(p)>>, p)
    ELSE IF method = "area" /\ Len(argv) = 0
         THEN IF area(p, oc).panic THEN Result("panic", 0, <<>>, p)
              ELSE Result("i32", area(p, oc).v, <<>>, p)
    ELSE IF method = "grow" /\ Len(argv) = 2
         THEN LET g == grow(p, argv[1], argv[2], oc)
              IN Result(IF g.panic THEN "panic" ELSE "unit", 0, <<>>, g.self)
    ELSE IF method = "greater" /\ Len(argv) = 1
         THEN IF area(p, oc).panic \/ area(argv[1], oc).panic THEN Result("panic", 0, <<>>, p)
              ELSE Result("bool", IF area(p, oc).v > area(argv[1], oc).v THEN 1 ELSE 0, <<>>, p)
    ELSE IF method = "send" /\ Len(argv) = 0 THEN [Result("unit", 0, <<>>, p) EXCEPT !.fut = 1]
    ELSE Result("no such method", 0, <<>>, p)

\* the trait methods the example's types implement, as the trait declares them
TraitSignature(method) ==
    IF method = "print_name" THEN [def |-> <<"fn", "print_name">>, recv |-> RecvRef, args |-> <<>>, ret |-> <<>>]
    ELSE IF method = "name" THEN [def |-> <<"fn", "name">>, recv |-> RecvRef, args |-> <<>>, ret |-> <<"String">>]
    ELSE IF method = "area" THEN [def |-> <<"fn", "area">>, recv |-> RecvRef, args |-> <<>>, ret |-> <<"i32">>]
    ELSE IF method = "grow"
         THEN [def |-> <<"fn", "grow">>, recv |-> RecvMut, args |-> <<ArgPool[1], ArgPool[2]>>, ret |-> <<>>]
    ELSE IF method = "greater"
         THEN [def |-> <<"fn", "greater">>, recv |-> RecvRef, args |-> <<ArgPool[3]>>, ret |-> <<"bool">>]
    ELSE IF method = "send" THEN [def |-> <<"async", "fn", "send">>, recv |-> RecvRef, args |-> <<>>, ret |-> <<>>]
    ELSE [def |-> <<>>, recv |-> <<>>, args |-> <<>>, ret |-> <<>>]

ArgValues(method) ==
    IF method = "grow" THEN {<<2, 1>>, <<3, 2>>, <<-3, 2>>, <<1, 0>>, <<1073741824, 1>>}
    ELSE IF method = "greater" THEN {<<Rect(1, 1)>>, <<Circle(2)>>, <<Rect(65536, 65536)>>}
    ELSE {<<>>}

MethodName(method_def) == method_def[Len(method_def)]

\* the declaration is one the example's types implement
Implemented(m) ==
    LET sig == TraitSignature(MethodName(m.method_def)) IN
    /\ m.method_def = sig.def
    /\ m.return_type = sig.ret
    /\ \E t \in BOOLEAN : m.params = Params(sig.recv, sig.args, t)

\* the trait methods that the code of a declaration calls on self or on its
\* arguments: the default body calls name; Rect's print_name calls name;
\* Circle has no print_name of its own and needs the default body; the
\* implementations of greater call area
Calls(m) ==
    (IF m.body # <<>> \/ MethodName(m.method_def) = "print_name" THEN {"name"} ELSE {})
    \cup (IF MethodName(m.method_def) = "greater" THEN {"area"} ELSE {})

\* the expansion of the invocation raises no error in the build cfg: the
\* entry pattern matches, its transcription parses, a rule with a receiver
\* takes every declaration with one parse, and a @make_match rule takes
\* every method the build keeps
Expands(cfg) ==
    /\ EntryMatches(input)
    /\ HeaderParses(input.trait)
    /\ \A i \in 1..Len(input.trait.any) :
         LET m == input.trait.any[i] IN
         /\ FirstShape(m) \in 1..6
         /\ TryShape(Shapes[FirstShape(m)], m) = "Success"
         /\ Active(m.attrs, cfg) => MakeMatchRule(m.method_def) # "none"

\* the invocation, with the example's types and their implementations of
\* the declared methods, is a program rustc accepts under the build
\* configuration cfg (feature platform_specific on or off)
Compiles(cfg) ==
    LET vs == input.enum.variants
        ms == input.trait.any
        live == {i \in 1..Len(ms) : Active(ms[i].attrs, cfg)}
    IN /\ Expands(cfg)
       /\ \A i, j \in 1..Len(vs) :
            (i # j /\ Active(vs[i].attrs, cfg) /\ Active(vs[j].attrs, cfg)) =>
                (vs[i].variant # vs[j].variant /\ vs[i].variant_type # vs[j].variant_type)
       /\ \A i \in 1..Len(vs) : Active(vs[i].attrs, cfg) => PayloadValues(vs[i].variant_type) # {}
       \* a match on a reference to an enum without variants is rejected
       /\ live # {} => \E i \in 1..Len(vs) : Active(vs[i].attrs, cfg)
       /\ \A i, j \in live : i # j => MethodName(ms[i].method_def) # MethodName(ms[j].method_def)
       /\ \A i \in live :
            /\ Implemented(ms[i])
            \* a default body is a block of type ()
            /\ ms[i].body # <<>> => ms[i].return_type = <<>>
            /\ MethodName(ms[i].method_def) = "print_name" => ms[i].body # <<>>
            /\ \A c \in Calls(ms[i]) : \E k \in live : MethodName(ms[k].method_def) = c
            \* `other: &impl ShapeTrait` names the trait of the invocation
            /\ MethodName(ms[i].method_def) = "greater" => input.trait.name = "ShapeTrait"
       \* the supertraits Clone and Debug of the trait ask for the enum's derive
       /\ input.trait.super_trait # <<>> => \E k \in 1..Len(input.enum.attr) : input.enum.attr[k] = DeriveAttr

Await(r) == IF r.fut > 0 THEN [r EXCEPT !.fut = @ - 1] ELSE [r EXCEPT !.tag = "not a future"]

\* the methods of the generated impl block that the build keeps, in order
ImplMethods(cfg) == SelectSeq(out.methods, LAMBDA g : Active(g.attr, cfg))

\* the arms of a generated match that the build keeps, in order
ActiveArms(g, cfg) == SelectSeq(g.body.arms, LAMBDA a : Active(a.var_attr, cfg))

ArmMatches(a, value) == a.enum_name = value.enum_name /\ a.variant = value.variant

\* what a name stands for that nothing in scope binds
Unbound == [ty |-> "unbound", w |-> 0, h |-> 0, r |-> 0]

\* match self: the first arm whose pattern fits; the pattern
\* $enum_name::$variant(v) binds the value's payload to the arm's `bind`,
\* and v is what the arm's call is made on, the arm's `recv` under that
\* binding (lib.rs 276-281, 284-289); arm 0: no arm fits
Bind(g, cfg, value) ==
    LET arms == ActiveArms(g, cfg) IN
    IF \E k \in 1..Len(arms) : ArmMatches(arms[k], value)
    THEN LET k == CHOOSE n \in 1..Len(arms) :
                     /\ ArmMatches(arms[n], value)
                     /\ \A l \in 1..(n - 1) : ~ArmMatches(arms[l], value)
         IN [arm |-> k, v |-> IF arms[k].recv = arms[k].bind THEN value.payload ELSE Unbound]
    ELSE [arm |-> 0, v |-> Unbound]

EvalMatch(g, cfg, value, env, oc) ==
    LET b == Bind(g, cfg, value) IN
    IF b.arm = 0 THEN Result("no arm", 0, <<>>, value.payload)
    ELSE LET a == ActiveArms(g, cfg)[b.arm]
             r == TypeImpl(b.v, a.method, [n \in 1..Len(a.args) |-> env[a.args[n]]], oc)
         IN IF a.await THEN Await(r) ELSE r

\* the generated method called with the arguments argv (lib.rs 270-272):
\* its parameters are bound by position, an async fn returns a future
CallGenerated(g, cfg, value, argv, oc) ==
    LET env == [n \in {g.args[k].arg : k \in 1..Len(g.args)} |->
                  argv[CHOOSE k \in 1..Len(g.args) : g.args[k].arg = n]]
        r == EvalMatch(g, cfg, value, env, oc)
    IN IF MakeMatchRule(g.method_def) = "async fn" THEN [r EXCEPT !.fut = @ + 1] ELSE r

\* From::from(p): the impl chosen by the type of p; its body
\* $enum_name::$variant(value) is evaluated with the impl's parameter bound
\* to p (lib.rs 362-366)
ConvertFrom(p, cfg) ==
    LET impls == SelectSeq(out.from, LAMBDA f : Active(f.var_attr, cfg) /\ f.from = p.ty) IN
    IF Len(impls) = 1
    THEN [enum_name |-> impls[1].constructs.enum_name, variant |-> impls[1].constructs.variant,
          payload |-> IF impls[1].constructs.payload = impls[1].param THEN p ELSE Unbound]
    ELSE [enum_name |-> "", variant |-> "", payload |-> Unbound]

\* the variant of the emitted enum a value is, by its tag
VariantOf(value, cfg) ==
    { j \in 1..Len(out.enum[1].variants) :
        /\ Active(out.enum[1].variants[j].attrs, cfg)
        /\ out.enum[1].name = value.enum_name
        /\ out.enum[1].variants[j].variant = value.variant }

\* the method of the generated impl block a call of `method_name` resolves to
Resolve(method_name, cfg) ==
    SelectSeq(ImplMethods(cfg), LAMBDA g : MethodName(g.method_def) = method_name)

\* value.m(argv) on an enum value, beside p.m(argv) on its payload, in a
\* build with or without overflow checks; a behaviour observes one run-time
\* operation, on a fresh value
call ==
    /\ pc = "done"
    /\ rt = NoRt
    /\ Compiles(feature)
    /\ \E i \in 1..Len(input.trait.any), j \in 1..Len(out.enum[1].variants) :
         LET m == MethodName(input.trait.any[i].method_def)
             gs == Resolve(m, feature)
         IN /\ Active(input.trait.any[i].attrs, feature)
            /\ Active(out.enum[1].variants[j].attrs, feature)
            /\ Len(gs) = 1
            /\ \E p \in PayloadValues(out.enum[1].variants[j].variant_type), argv \in ArgValues(m),
                  oc \in BOOLEAN :
                 LET value == [enum_name |-> out.enum[1].name,
                               variant |-> out.enum[1].variants[j].variant, payload |-> p]
                 IN rt' = [op |-> "call", method |-> m, variant |-> j, payload |-> p,
                           argv |-> argv, overflow_checks |-> oc,
                           result |-> CallGenerated(gs[1], feature, value, argv, oc),
                           direct |-> TypeImpl(p, m, argv, oc)]
    /\ UNCHANGED <<input, feature, pc, inv, out, diag>>

\* Enum::from(p) on a payload, then the match of each method of the impl
\* block on the value
from ==
    /\ pc = "done"
    /\ rt = NoRt
    /\ Compiles(feature)
    /\ \E j \in 1..Len(input.enum.variants) :
         /\ Active(input.enum.variants[j].attrs, feature)
         /\ \E p \in PayloadValues(input.enum.variants[j].variant_type) :
              LET value == ConvertFrom(p, feature)
                  kept == ImplMethods(feature)
              IN rt' = [op |-> "from", variant |-> j, payload |-> p, value |-> value,
                        tag |-> VariantOf(value, feature),
                        bound |-> [i \in 1..Len(kept) |-> Bind(kept[i], feature, value)]]
    /\ UNCHANGED <<input, feature, pc, inv, out, diag>>

Next == enum_dispatch \/ __munch_methods \/ __build_method \/ make_match \/ call \/ from

Spec == Init /\ [][Next]_vars

(***************************************************************************)
(* Reading a declaration as it was written: its receiver, its further      *)
(* parameters and its trailing comma, independently of the matcher.        *)
(***************************************************************************)
Receivers == {RecvSelf, RecvRef, RecvMut}

DeclaredArgLists == {SubSeq(ArgPool, 1, n) : n \in 0..Len(ArgPool)} \cup {<<ArgPool[3]>>}

Declared(m) ==
    CHOOSE d \in [recv : RecvForms, args : DeclaredArgLists, trailing : BOOLEAN] :
        m.params = Params(d.recv, d.args, d.trailing)

HasReceiver(m) == Declared(m).recv \in Receivers

ReceiverForm(recv) ==
    IF recv = RecvSelf THEN <<>> ELSE IF recv = RecvRef THEN <<"&">> ELSE <<"&", "mut">>

DeclaredParams(m) ==
    LET as == Declared(m).args IN [i \in 1..Len(as) |-> [arg |-> as[i][1].s, arg_ty |-> as[i][3].s]]

DeclaredNames(m) == LET as == Declared(m).args IN [i \in 1..Len(as) |-> as[i][1].s]

Finished == pc \in {"done", "error"}

Methods == input.trait.any
Variants == input.enum.variants

\* the entry macro took the invocation and its transcription went on to the
\* expansion of the method list
Accepted == EntryMatches(input) /\ HeaderParses(input.trait)

\* the declaration is a plain or an async fn
Supported(m) == MakeMatchRule(m.method_def) # "none"

\* the nested invocation of the i-th generated method is still to be expanded
Expanding(i) == pc = "match" /\ i = Len(out.methods)

\* the expansion ended in the compile_error! of the fallback rule
MissingReceiverRaised == pc = "error" /\ diag # <<>> /\ diag[Len(diag)].kind = "compile_error"

\* the first declaration without a recognised receiver, 0 if there is none
Offending ==
    IF \E i \in 1..Len(Methods) : ~HasReceiver(Methods[i])
    THEN CHOOSE i \in 1..Len(Methods) :
            ~HasReceiver(Methods[i]) /\ \A k \in 1..(i - 1) : HasReceiver(Methods[k])
    ELSE 0

(***************************************************************************)
(* C1: a trait method called on the enum value V(p) returns what the same  *)
(* method called on the payload p returns, prints the same, and leaves the *)
(* payload as the direct call leaves it: the call goes to the payload's    *)
(* own implementation, with the arguments in the order given.              *)
(***************************************************************************)
C1_DispatchEqualsDirectCall == rt.op = "call" => rt.result = rt.direct

C1_Witness ==
    /\ rt.op = "call" /\ rt.method = "grow" /\ rt.variant = 2
    /\ rt.result.self # rt.payload
    /\ rt.result = rt.direct

(***************************************************************************)
(* C2: when every declared method is a plain or async fn with a recognised *)
(* receiver, the impl block holds one method per declaration, in           *)
(* declaration order, and the match of each method the build keeps holds   *)
(* one arm per variant, in variant order.                                  *)
(***************************************************************************)
C2_OneMethodPerDeclarationOneArmPerVariant ==
    (/\ Finished /\ Accepted
     /\ \A k \in 1..Len(Methods) : HasReceiver(Methods[k]) /\ Supported(Methods[k])) =>
        /\ pc = "done"
        /\ Len(out.impl) = 1
        /\ Len(out.methods) = Len(Methods)
        /\ \A i \in 1..Len(out.methods) :
             /\ out.methods[i].method_def = Methods[i].method_def
             /\ Active(Methods[i].attrs, feature) =>
                  /\ IsMatch(out.methods[i].body)
                  /\ Len(out.methods[i].body.arms) = Len(Variants)
                  /\ \A j \in 1..Len(Variants) :
                       /\ out.methods[i].body.arms[j].variant = Variants[j].variant
                       /\ out.methods[i].body.arms[j].enum_name = input.enum.name

(***************************************************************************)
(* C3: once the entry macro has transcribed its output, one From impl is   *)
(* emitted per variant, from that variant's payload type, its body the     *)
(* variant applied to the impl's parameter; converting a payload p and     *)
(* matching on the result, in any method of the impl block, takes the arm  *)
(* of that variant and binds p itself.                                     *)
(***************************************************************************)
C3_OneConversionPerVariantRoundTrip ==
    /\ (pc # "invoke" /\ Accepted) =>
         /\ Len(out.from) = Len(Variants)
         /\ \A j \in 1..Len(Variants) :
              /\ out.from[j].from = Variants[j].variant_type
              /\ out.from[j].for = input.enum.name
              /\ out.from[j].constructs.variant = Variants[j].variant
              /\ out.from[j].constructs.payload = out.from[j].param
    /\ (pc # "invoke" /\ ~Accepted) => out.from = <<>>
    /\ rt.op = "from" =>
         /\ rt.value = [enum_name |-> input.enum.name, variant |-> Variants[rt.variant].variant,
                        payload |-> rt.payload]
         /\ rt.tag = {rt.variant}
         /\ Len(rt.bound) = Len(ImplMethods(feature))
         /\ \A i \in 1..Len(rt.bound) :
              /\ rt.bound[i].v = rt.payload
              /\ rt.bound[i].arm >= 1
              /\ ActiveArms(ImplMethods(feature)[i], feature)[rt.bound[i].arm].variant
                   = Variants[rt.variant].variant

C3_Witness ==
    /\ rt.op = "from" /\ rt.variant = 2 /\ Len(rt.bound) >= 2
    /\ rt.payload = Circle(2)
    /\ rt.value = [enum_name |-> "Shape", variant |-> "Circle", payload |-> Circle(2)]
    /\ rt.bound[2] = [arm |-> 2, v |-> Circle(2)]

(***************************************************************************)
(* C4: a declaration without a recognised receiver, after declarations     *)
(* that have one, ends the generation in the diagnostic                    *)
(* "method `<name>` should receive self", <name> the method's name: it is  *)
(* the last diagnostic raised.                                             *)
(***************************************************************************)
C4_DiagnosticNamesTheMethod ==
    (Finished /\ Accepted /\ Offending # 0) =>
        /\ pc = "error"
        /\ diag # <<>>
        /\ diag[Len(diag)] = [kind |-> "compile_error", before |-> "method",
                              quoted |-> MethodName(Methods[Offending].method_def),
                              after |-> "should receive self"]

(***************************************************************************)
(* C5: when the generation fails with the missing-receiver diagnostic,     *)
(* nothing is part of the output: no forwarding method, no impl block, no  *)
(* trait or enum declaration and no From impl.                             *)
(***************************************************************************)
C5_NoPartialOutput == MissingReceiverRaised => out = NoOutput

(***************************************************************************)
(* C6: once the entry macro has transcribed its output, a variant's        *)
(* attributes are the same on its entry in the emitted                     *)
(* enum, on its arm in every generated match and on its From impl, so      *)
(* under either build configuration the variants, the arms of each match   *)
(* and the From impls that remain are those of the same variants.          *)
(***************************************************************************)
Remaining(attrs, cfg) == {j \in 1..Len(attrs) : Active(attrs[j], cfg)}

C6_VariantAttributesEverywhere ==
    (pc # "invoke" /\ Accepted) =>
        /\ Len(out.enum) = 1
        /\ Len(out.enum[1].variants) = Len(Variants) /\ Len(out.from) = Len(Variants)
        /\ \A j \in 1..Len(Variants) :
             /\ out.enum[1].variants[j].attrs = Variants[j].attrs
             /\ out.from[j].var_attr = Variants[j].attrs
        /\ \A i \in 1..Len(out.methods) :
             IsMatch(out.methods[i].body) =>
                /\ Len(out.methods[i].body.arms) = Len(Variants)
                /\ \A j \in 1..Len(Variants) : out.methods[i].body.arms[j].var_attr = Variants[j].attrs
        /\ \A cfg \in BOOLEAN :
             LET kept == {j \in 1..Len(Variants) : Active(Variants[j].attrs, cfg)} IN
             /\ Remaining([j \in 1..Len(Variants) |-> out.enum[1].variants[j].attrs], cfg) = kept
             /\ Remaining([j \in 1..Len(out.from) |-> out.from[j].var_attr], cfg) = kept
             /\ \A i \in 1..Len(out.methods) :
                  IsMatch(out.methods[i].body) =>
                     Remaining([j \in 1..Len(out.methods[i].body.arms) |->
                                  out.methods[i].body.arms[j].var_attr], cfg) = kept

C6_Witness ==
    /\ pc = "done" /\ ~feature /\ Len(out.methods) >= 1 /\ Len(Variants) = 2
    /\ Variants[1].attrs = <<CfgAttr>> /\ Variants[2].attrs = <<>>
    /\ IsMatch(out.methods[1].body)
    /\ Remaining([j \in 1..2 |-> out.methods[1].body.arms[j].var_attr], feature) = {2}

(***************************************************************************)
(* C7: every method declared `fn` or `async fn` that the build keeps gets  *)
(* a match with an arm per variant; every arm of a method declared         *)
(* `async fn` awaits the forwarded call, no arm of a method declared `fn`  *)
(* does.                                                                   *)
(***************************************************************************)
C7_AwaitExactlyInAsyncMethods ==
    \A i \in 1..Len(out.methods) :
        /\ i <= Len(Methods)
        /\ (Supported(Methods[i]) /\ Active(Methods[i].attrs, feature) /\ ~Expanding(i)) =>
             /\ IsMatch(out.methods[i].body)
             /\ Len(out.methods[i].body.arms) = Len(Variants)
        /\ IsMatch(out.methods[i].body) =>
             \A j \in 1..Len(out.methods[i].body.arms) :
                out.methods[i].body.arms[j].await = (Methods[i].method_def[1] = "async")

C7_Witness ==
    /\ pc = "done" /\ Len(out.methods) = 2
    /\ Methods[1].method_def[1] = "async" /\ Methods[2].method_def[1] = "fn"
    /\ IsMatch(out.methods[1].body) /\ IsMatch(out.methods[2].body)
    /\ Len(out.methods[1].body.arms) = 3
    /\ out.methods[1].body.arms[3].await /\ ~out.methods[2].body.arms[3].await

(***************************************************************************)
(* C8: the method generated for a declaration with a default body is the   *)
(* method generated for the same declaration ending in `;`: same           *)
(* attributes, receiver form, parameters, return type and arms.  The       *)
(* default body is not part of it: the method is the signature and the     *)
(* match.                                                                  *)
(***************************************************************************)
WithoutBody(m) == [m EXCEPT !.body = <<>>]

C8_DefaultBodyChangesNothing ==
    \A i \in 1..Len(out.methods) :
        /\ i <= Len(Methods)
        /\ (Methods[i].body # <<>> /\ ~Expanding(i)) =>
             /\ FirstShape(WithoutBody(Methods[i])) \in 1..3
             /\ TryShape(Shapes[FirstShape(WithoutBody(Methods[i]))], WithoutBody(Methods[i])) = "Success"
             /\ out.methods[i] =
                  Forward(WithoutBody(Methods[i]), VariantList(input.enum), input.enum.name, feature)
             /\ DOMAIN out.methods[i] =
                  {"attr", "method_def", "self_ref", "self_", "args", "return_type", "body"}
             /\ (Supported(Methods[i]) /\ Active(Methods[i].attrs, feature)) =>
                  /\ DOMAIN out.methods[i].body = {"match_on", "arms"}
                  /\ out.methods[i].body.match_on = "self"
                  /\ Len(out.methods[i].body.arms) = Len(Variants)

C8_Witness ==
    /\ pc = "done" /\ Len(out.methods) = 1
    /\ Methods[1].body # <<>>
    /\ Declared(Methods[1]).recv = RecvMut
    /\ Len(Declared(Methods[1]).args) = 2
    /\ out.methods[1].self_ref = <<"&", "mut">>
    /\ IsMatch(out.methods[1].body)
    /\ out.methods[1] = Forward(WithoutBody(Methods[1]), VariantList(input.enum), input.enum.name, feature)

(***************************************************************************)
(* C9: a successful generation emits the trait and the enum exactly as     *)
(* they were given and adds one impl block and the From impls.             *)
(***************************************************************************)
C9_DeclarationsExactlyAsGiven ==
    pc = "done" =>
        /\ out.trait = <<input.trait>>
        /\ out.enum = <<input.enum>>
        /\ out.impl = <<[trait |-> input.trait.name, for |-> input.enum.name]>>
        /\ Len(out.from) = Len(Variants)

(***************************************************************************)
(* C9, amended: a successful generation emits the trait as it was given    *)
(* (attributes, visibility, name, bounds, the whole method list with its   *)
(* default bodies) and the enum with the attributes, visibility, name and  *)
(* variants given (each with its attributes and payload type, in order); a *)
(* comma after the last variant is the one thing not reproduced.  It adds  *)
(* one impl block and one From impl per variant.                           *)
(***************************************************************************)
C9_DeclarationsReproduced ==
    pc = "done" =>
        /\ out.trait = <<input.trait>>
        /\ out.enum = <<[input.enum EXCEPT !.comma = FALSE]>>
        /\ out.impl = <<[trait |-> input.trait.name, for |-> input.enum.name]>>
        /\ Len(out.from) = Len(Variants)

C9_Witness ==
    /\ pc = "done"
    /\ Len(Methods) = 2 /\ Methods[1].body # <<>>
    /\ Len(Variants) = 2 /\ Variants[2].attrs = <<CfgAttr>>
    /\ input.trait.super_trait # <<>>
    /\ input.enum.comma /\ ~out.enum[1].comma
    /\ out.trait[1].any = Methods /\ out.enum[1].variants = Variants

(***************************************************************************)
(* C10: a plain or async fn whose receiver is `self`, `&self` or           *)
(* `&mut self`, with any further parameters, with or without a trailing    *)
(* comma, gets a forwarding method with the same attributes, name,         *)
(* receiver form, parameter list and return type, whose arms (when the     *)
(* build keeps the method) call the same method with the declared          *)
(* parameter names in order.                                               *)
(***************************************************************************)
Reproduced(m, g) ==
    /\ g.attr = m.attrs
    /\ g.method_def = m.method_def
    /\ g.self_ref = ReceiverForm(Declared(m).recv)
    /\ g.self_ = "self"
    /\ g.args = DeclaredParams(m)
    /\ g.return_type = m.return_type
    /\ Active(m.attrs, feature) =>
         /\ IsMatch(g.body)
         /\ \A j \in 1..Len(g.body.arms) :
              /\ g.body.arms[j].method = MethodName(m.method_def)
              /\ g.body.arms[j].args = DeclaredNames(m)

C10_SignatureAndArgumentsReproduced ==
    (Finished /\ Accepted) =>
        \A i \in 1..Len(Methods) :
            (\A k \in 1..i : HasReceiver(Methods[k]) /\ Supported(Methods[k])) =>
                /\ Len(out.methods) >= i
                /\ Reproduced(Methods[i], out.methods[i])

====
